---------------------------- MODULE Spec2Model ----------------------------
(***************************************************************************)
(* Model of prepareVerification.py: the raw, offset-based extraction of    *)
(* the signed entity and the detached signature of a multipart/signed      *)
(* message.  A byte string is a sequence of one-character strings; offsets *)
(* are 0-based and slices half-open, as in the Python source.              *)
(***************************************************************************)
EXTENDS Integers, Sequences, FiniteSets, TLC

VARIABLES
    input,          \* how the file under test was built (never read by the program)
    file,           \* what open(sys.argv[1], "rb").read() finds
    pc,             \* position of main()
    raw,            \* main: raw
    top_headers,    \* main: top_headers
    top_body,       \* main: top_body
    eol,            \* main: _eol
    boundary,       \* main: boundary
    bmarks,         \* split_multipart_signed_parts: bmarks
    part1,          \* main: part1
    part2,          \* main: part2
    sig_body,       \* main: sig_body
    outdir,         \* whether extractedSignatureData/ exists
    message_txt,    \* extractedSignatureData/message.txt
    signature_asc,  \* extractedSignatureData/signature.asc
    err,            \* the failure the run ended in, "none" so far
    exit_code       \* the process' exit status, -1 while running

vars == <<input, file, pc, raw, top_headers, top_body, eol, boundary, bmarks,
          part1, part2, sig_body, outdir, message_txt, signature_asc, err,
          exit_code>>

---------------------------------------------------------------------------
(* Bytes *)

CR == "\r"
LF == "\n"
TAB == "\t"
SP == " "
FF == "\f"
VT == "<VT>"
DQUOTE == "\""
DASH == "-"

CRLF == <<CR, LF>>
CRLFCRLF == <<CR, LF, CR, LF>>
LFLF == <<LF, LF>>

UpperCase == <<"A", "B", "C", "D", "E", "F", "G", "H", "I", "J", "K", "L", "M",
               "N", "O", "P", "Q", "R", "S", "T", "U", "V", "W", "X", "Y", "Z">>
LowerCase == <<"a", "b", "c", "d", "e", "f", "g", "h", "i", "j", "k", "l", "m",
               "n", "o", "p", "q", "r", "s", "t", "u", "v", "w", "x", "y", "z">>

\* bytes.lower() on one byte
LowerByte(c) ==
    IF \E i \in 1..Len(UpperCase) : UpperCase[i] = c
    THEN LowerCase[CHOOSE i \in 1..Len(UpperCase) : UpperCase[i] = c]
    ELSE c

\* bytes.lower()
Lower(b) == [i \in 1..Len(b) |-> LowerByte(b[i])]

Min(S) == CHOOSE x \in S : \A y \in S : x <= y

\* b[lo:hi], 0 <= lo
Slice(b, lo, hi) == SubSeq(b, lo + 1, IF hi < Len(b) THEN hi ELSE Len(b))

\* b[lo:]
SliceFrom(b, lo) == SubSeq(b, lo + 1, Len(b))

\* b.startswith(p)
StartsWith(b, p) == Len(b) >= Len(p) /\ SubSeq(b, 1, Len(p)) = p

\* b.endswith(p)
EndsWith(b, p) == Len(b) >= Len(p) /\ SubSeq(b, Len(b) - Len(p) + 1, Len(b)) = p

\* b.find(sep): the lowest offset at which sep occurs, -1 when it does not
Find(b, sep) ==
    LET at == {i \in 0..(Len(b) - Len(sep)) : SubSeq(b, i + 1, i + Len(sep)) = sep}
    IN  IF at = {} THEN -1 ELSE Min(at)

\* sep in b
Contains(b, sep) == Find(b, sep) # -1

\* the bytes bytes.strip() removes
AsciiWhitespace == {SP, TAB, LF, CR, VT, FF}

\* b.strip()
Strip(b) ==
    LET keep == {i \in 1..Len(b) : b[i] \notin AsciiWhitespace}
    IN  IF keep = {} THEN <<>>
        ELSE SubSeq(b, Min(keep), CHOOSE x \in keep : \A y \in keep : y <= x)

\* b.splitlines(): lines end at \n, \r\n or \r; terminators are dropped
RECURSIVE SplitLinesFrom(_, _)
SplitLinesFrom(b, i) ==
    IF i > Len(b) THEN <<>>
    ELSE LET ends == {k \in i..Len(b) : b[k] \in {CR, LF}}
             e    == IF ends = {} THEN Len(b) + 1 ELSE Min(ends)
             next == IF e > Len(b) THEN e
                     ELSE IF b[e] = CR /\ e < Len(b) /\ b[e + 1] = LF THEN e + 2
                     ELSE e + 1
         IN  <<SubSeq(b, i, e - 1)>> \o SplitLinesFrom(b, next)

SplitLines(b) == SplitLinesFrom(b, 1)

---------------------------------------------------------------------------
(* find_header_block *)

\* the split without its \n\n fallback
find_header_block_crlf_only(r) ==
    LET idx == Find(r, CRLFCRLF)
    IN  IF idx # -1
        THEN [ok |-> TRUE, headers |-> Slice(r, 0, idx),
              rest |-> SliceFrom(r, idx + Len(CRLFCRLF)), eol |-> CRLF]
        ELSE [ok |-> FALSE, headers |-> <<>>, rest |-> <<>>, eol |-> <<>>]

\* (headers, rest, eol) of the split at the first blank line; ok = FALSE is die()
find_header_block(r) ==
    LET idx == Find(r, CRLFCRLF)
    IN  IF idx # -1
        THEN [ok |-> TRUE, headers |-> Slice(r, 0, idx),
              rest |-> SliceFrom(r, idx + Len(CRLFCRLF)), eol |-> CRLF]
        ELSE LET idx2 == Find(r, LFLF)
             IN  IF idx2 = -1
                 THEN [ok |-> FALSE, headers |-> <<>>, rest |-> <<>>, eol |-> <<>>]
                 ELSE [ok |-> TRUE, headers |-> Slice(r, 0, idx2),
                       rest |-> SliceFrom(r, idx2 + Len(LFLF)), eol |-> <<LF>>]

---------------------------------------------------------------------------
(* get_top_level_boundary *)

ContentTypeName == <<"c", "o", "n", "t", "e", "n", "t", "-", "t", "y", "p", "e", ":">>
MultipartSigned == <<"m", "u", "l", "t", "i", "p", "a", "r", "t", "/", "s", "i", "g",
                     "n", "e", "d">>
BoundaryEq == <<"b", "o", "u", "n", "d", "a", "r", "y", "=">>

\* the loop of lines 34-39: a line starting with space or tab joins the one before
RECURSIVE UnfoldFrom(_, _, _)
UnfoldFrom(lines, i, unfolded) ==
    IF i > Len(lines) THEN unfolded
    ELSE IF unfolded # <<>> /\ (StartsWith(lines[i], <<SP>>) \/ StartsWith(lines[i], <<TAB>>))
    THEN UnfoldFrom(lines, i + 1,
                    [unfolded EXCEPT ![Len(unfolded)] = unfolded[Len(unfolded)] \o lines[i]])
    ELSE UnfoldFrom(lines, i + 1, Append(unfolded, lines[i]))

Unfold(lines) == UnfoldFrom(lines, 1, <<>>)

\* the loop of lines 42-46: the stripped value of the first Content-Type line,
\* found = FALSE when there is none (ct stays None)
ContentType(unfolded) ==
    LET hits == {i \in 1..Len(unfolded) : StartsWith(Lower(unfolded[i]), ContentTypeName)}
    IN  IF hits = {} THEN [found |-> FALSE, ct |-> <<>>]
        ELSE [found |-> TRUE,
              ct |-> Strip(SliceFrom(unfolded[Min(hits)], Len(ContentTypeName)))]

\* the bytes the class [^";\s] of the boundary pattern excludes
NotValByte == {DQUOTE, ";", SP, TAB, LF, CR, FF, VT}

\* re.search of boundary=(?P<q>")?(?P<val>[^";\s]+)(?P=q)? with IGNORECASE:
\* the leftmost offset where it matches, and group val there
BoundarySearch(ct) ==
    LET n        == Len(ct)
        valAt(i) == LET j == i + Len(BoundaryEq)
                    IN  IF j < n /\ ct[j + 1] = DQUOTE THEN j + 1 ELSE j
        ok(i)    == /\ Lower(Slice(ct, i, i + Len(BoundaryEq))) = BoundaryEq
                    /\ valAt(i) < n
                    /\ ct[valAt(i) + 1] \notin NotValByte
        at       == {i \in 0..(n - Len(BoundaryEq)) : ok(i)}
    IN  IF at = {} THEN [matched |-> FALSE, val |-> <<>>]
        ELSE LET s     == valAt(Min(at))
                 stops == {k \in s..(n - 1) : ct[k + 1] \in NotValByte}
                 e     == IF stops = {} THEN n ELSE Min(stops)
             IN  [matched |-> TRUE, val |-> Slice(ct, s, e)]

\* the boundary token, or the die() reached first
get_top_level_boundary(th) ==
    LET found == ContentType(Unfold(SplitLines(th)))
        ct    == found.ct
        m     == BoundarySearch(ct)
    IN  IF ~found.found \/ ct = <<>>
        THEN [err |-> "MissingHeader", token |-> <<>>]
        ELSE IF ~Contains(Lower(ct), MultipartSigned)
        THEN [err |-> "UnexpectedMediaType", token |-> <<>>]
        ELSE IF ~m.matched
        THEN [err |-> "MissingBoundary", token |-> <<>>]
        ELSE [err |-> "none", token |-> m.val]

---------------------------------------------------------------------------
(* iter_signed_boundaries *)

\* [ \t]*\r?\n from offset k: the offset after the line terminator, -1 on no match
EndOfDelimiterLine(body, k) ==
    LET n     == Len(body)
        stops == {j \in k..(n - 1) : body[j + 1] \notin {SP, TAB}}
        w     == IF stops = {} THEN n ELSE Min(stops)
    IN  IF w + 1 < n /\ body[w + 1] = CR /\ body[w + 2] = LF THEN w + 2
        ELSE IF w < n /\ body[w + 1] = LF THEN w + 1
        ELSE -1

\* the pattern without its ^ anchor: a match may start anywhere
AtLineStartUnanchored(body, s) == TRUE

\* ^ under (?m): the start of the body, or just after a \n
AtLineStart(body, s) == s = 0 \/ body[s] = LF

\* the pattern of lines 70-72 tried at offset s: (end, is_closing), end = -1 on no match
MatchDelimiter(body, b, s) ==
    LET lit     == <<DASH, DASH>> \o b
        a       == s + Len(lit)
        closing == Slice(body, a, a + 2) = <<DASH, DASH>>
    IN  IF ~AtLineStart(body, s) \/ Slice(body, s, a) # lit
        THEN [end |-> -1, is_closing |-> FALSE]
        ELSE IF closing /\ EndOfDelimiterLine(body, a + 2) # -1
        THEN [end |-> EndOfDelimiterLine(body, a + 2), is_closing |-> TRUE]
        ELSE [end |-> EndOfDelimiterLine(body, a), is_closing |-> FALSE]

\* pattern.finditer(body) from offset pos: the matches left to right, none overlapping
RECURSIVE FindIter(_, _, _)
FindIter(body, b, pos) ==
    IF pos >= Len(body) THEN <<>>
    ELSE LET m == MatchDelimiter(body, b, pos)
         IN  IF m.end # -1
             THEN <<[start |-> pos, end |-> m.end, is_closing |-> m.is_closing]>>
                  \o FindIter(body, b, m.end)
             ELSE FindIter(body, b, pos + 1)

iter_signed_boundaries(body, b) == FindIter(body, b, 0)

---------------------------------------------------------------------------
(* split_multipart_signed_parts *)

\* lines 126-134: one leading \r\n, else one leading \n, is dropped
TrimLeadingNewline(p) ==
    IF StartsWith(p, CRLF) THEN SliceFrom(p, 2)
    ELSE IF StartsWith(p, <<LF>>) THEN SliceFrom(p, 1)
    ELSE p

\* lines 105-109: the index of the first closing mark, -1 for None
ClosingIdx(marks) ==
    LET closings == {i \in 0..(Len(marks) - 1) : marks[i + 1].is_closing}
    IN  IF closings = {} THEN -1 ELSE Min(closings)

\* the checks with the search for the closing mark moved before the count
SplitCheckClosingFirst(marks) ==
    IF ClosingIdx(marks) = -1 THEN "NoClosingBoundary"
    ELSE IF ClosingIdx(marks) < 2 THEN "NotEnoughParts"
    ELSE IF Len(marks) < 2 THEN "InsufficientBoundaries"
    ELSE "none"

\* the checks of lines 94-114, in their order: the first die() reached
SplitCheck(marks) ==
    IF Len(marks) < 2 THEN "InsufficientBoundaries"
    ELSE IF ClosingIdx(marks) = -1 THEN "NoClosingBoundary"
    ELSE IF ClosingIdx(marks) < 2 THEN "NotEnoughParts"
    ELSE "none"

\* lines 117-122: the slice holding the first part
Part1Slice(body, marks) == Slice(body, marks[1].end, marks[2].start)

\* lines 117-122: the slice holding the second part
Part2Slice(body, marks) ==
    Slice(body, marks[2].end, marks[ClosingIdx(marks) + 1].start)

split_multipart_signed_parts(body, b) ==
    LET marks == iter_signed_boundaries(body, b)
        e     == SplitCheck(marks)
    IN  IF e # "none"
        THEN [err |-> e, bmarks |-> marks, part1 |-> <<>>, part2 |-> <<>>]
        ELSE [err |-> "none", bmarks |-> marks,
              part1 |-> TrimLeadingNewline(Part1Slice(body, marks)),
              part2 |-> TrimLeadingNewline(Part2Slice(body, marks))]

---------------------------------------------------------------------------
(* strip_headers *)

\* strip_headers as its docstring has it: without a blank line the body is empty
strip_headers_empty_body(part_bytes) ==
    LET idx == Find(part_bytes, CRLFCRLF)
    IN  IF idx # -1
        THEN [headers |-> Slice(part_bytes, 0, idx),
              body |-> SliceFrom(part_bytes, idx + Len(CRLFCRLF))]
        ELSE LET idx2 == Find(part_bytes, LFLF)
             IN  IF idx2 = -1
                 THEN [headers |-> part_bytes, body |-> <<>>]
                 ELSE [headers |-> Slice(part_bytes, 0, idx2),
                       body |-> SliceFrom(part_bytes, idx2 + Len(LFLF))]

strip_headers(part_bytes) ==
    LET idx == Find(part_bytes, CRLFCRLF)
    IN  IF idx # -1
        THEN [headers |-> Slice(part_bytes, 0, idx),
              body |-> SliceFrom(part_bytes, idx + Len(CRLFCRLF))]
        ELSE LET idx2 == Find(part_bytes, LFLF)
             IN  IF idx2 = -1
                 THEN [headers |-> <<>>, body |-> part_bytes]
                 ELSE [headers |-> Slice(part_bytes, 0, idx2),
                       body |-> SliceFrom(part_bytes, idx2 + Len(LFLF))]

---------------------------------------------------------------------------
(* main.trim_trailing_newline *)

\* a trim that knows \n only and leaves the \r of a \r\n behind
trim_trailing_newline_lf_only(b) ==
    IF EndsWith(b, <<LF>>) THEN Slice(b, 0, Len(b) - 1) ELSE b

trim_trailing_newline(b) ==
    IF EndsWith(b, CRLF) THEN Slice(b, 0, Len(b) - 2)
    ELSE IF EndsWith(b, <<LF>>) THEN Slice(b, 0, Len(b) - 1)
    ELSE b

---------------------------------------------------------------------------
(* main *)

NoBytes == <<>>
NoFile == [written |-> FALSE, data |-> NoBytes]

\* die(), and an exception no handler catches: the process ends with status 1
Die(kind) ==
    /\ err' = kind
    /\ exit_code' = 1
    /\ pc' = "exit"

\* lines 158-166: the usage check and the read of the input file
ReadFile ==
    /\ pc = "read"
    /\ IF file.kind = "noarg"
       THEN Die("Usage") /\ UNCHANGED raw
       ELSE IF file.kind = "unreadable"
       THEN Die("IOFailure") /\ UNCHANGED raw
       ELSE /\ raw' = file.data
            /\ pc' = "find_header_block"
            /\ UNCHANGED <<err, exit_code>>
    /\ UNCHANGED <<input, file, top_headers, top_body, eol, boundary, bmarks, part1,
                   part2, sig_body, outdir, message_txt, signature_asc>>

\* line 169
FindHeaderBlock ==
    /\ pc = "find_header_block"
    /\ LET r == find_header_block(raw)
       IN  IF r.ok
           THEN /\ top_headers' = r.headers
                /\ top_body' = r.rest
                /\ eol' = r.eol
                /\ pc' = "get_top_level_boundary"
                /\ UNCHANGED <<err, exit_code>>
           ELSE Die("MalformedMessage") /\ UNCHANGED <<top_headers, top_body, eol>>
    /\ UNCHANGED <<input, file, raw, boundary, bmarks, part1, part2, sig_body, outdir,
                   message_txt, signature_asc>>

\* line 172
GetTopLevelBoundary ==
    /\ pc = "get_top_level_boundary"
    /\ LET r == get_top_level_boundary(top_headers)
       IN  IF r.err = "none"
           THEN /\ boundary' = r.token
                /\ pc' = "split_multipart_signed_parts"
                /\ UNCHANGED <<err, exit_code>>
           ELSE Die(r.err) /\ UNCHANGED boundary
    /\ UNCHANGED <<input, file, raw, top_headers, top_body, eol, bmarks, part1, part2,
                   sig_body, outdir, message_txt, signature_asc>>

\* line 175
SplitMultipartSignedParts ==
    /\ pc = "split_multipart_signed_parts"
    /\ LET r == split_multipart_signed_parts(top_body, boundary)
       IN  /\ bmarks' = r.bmarks
           /\ IF r.err = "none"
              THEN /\ part1' = r.part1
                   /\ part2' = r.part2
                   /\ pc' = "strip_headers"
                   /\ UNCHANGED <<err, exit_code>>
              ELSE Die(r.err) /\ UNCHANGED <<part1, part2>>
    /\ UNCHANGED <<input, file, raw, top_headers, top_body, eol, boundary, sig_body,
                   outdir, message_txt, signature_asc>>

\* line 180
StripHeaders ==
    /\ pc = "strip_headers"
    /\ sig_body' = strip_headers(part2).body
    /\ pc' = "makedirs"
    /\ UNCHANGED <<input, file, raw, top_headers, top_body, eol, boundary, bmarks,
                   part1, part2, outdir, message_txt, signature_asc, err, exit_code>>

\* lines 183-185: os.makedirs(outdir, exist_ok=True) creates the directory or raises
MakeDirs ==
    /\ pc = "makedirs"
    /\ \E ok \in BOOLEAN :
          IF ok
          THEN /\ outdir' = TRUE
               /\ pc' = "trim"
               /\ UNCHANGED <<err, exit_code>>
          ELSE Die("IOFailure") /\ UNCHANGED outdir
    /\ UNCHANGED <<input, file, raw, top_headers, top_body, eol, boundary, bmarks,
                   part1, part2, sig_body, message_txt, signature_asc>>

\* lines 194-195
TrimTrailingNewlines ==
    /\ pc = "trim"
    /\ part1' = trim_trailing_newline(part1)
    /\ sig_body' = trim_trailing_newline(sig_body)
    /\ pc' = "write_message"
    /\ UNCHANGED <<input, file, raw, top_headers, top_body, eol, boundary, bmarks,
                   part2, outdir, message_txt, signature_asc, err, exit_code>>

\* lines 197-198: open(message.txt, "wb") raises or the bytes are written
WriteMessage ==
    /\ pc = "write_message"
    /\ \E ok \in BOOLEAN :
          IF ok
          THEN /\ message_txt' = [written |-> TRUE, data |-> part1]
               /\ pc' = "write_signature"
               /\ UNCHANGED <<err, exit_code>>
          ELSE Die("IOFailure") /\ UNCHANGED message_txt
    /\ UNCHANGED <<input, file, raw, top_headers, top_body, eol, boundary, bmarks,
                   part1, part2, sig_body, outdir, signature_asc>>

\* lines 200-201: open(signature.asc, "wb") raises or the bytes are written
WriteSignature ==
    /\ pc = "write_signature"
    /\ \E ok \in BOOLEAN :
          IF ok
          THEN /\ signature_asc' = [written |-> TRUE, data |-> sig_body]
               /\ pc' = "report"
               /\ UNCHANGED <<err, exit_code>>
          ELSE Die("IOFailure") /\ UNCHANGED signature_asc
    /\ UNCHANGED <<input, file, raw, top_headers, top_body, eol, boundary, bmarks,
                   part1, part2, sig_body, outdir, message_txt>>

\* lines 203-205: the success message; main returns and the status is 0
Report ==
    /\ pc = "report"
    /\ exit_code' = 0
    /\ pc' = "exit"
    /\ UNCHANGED <<input, file, raw, top_headers, top_body, eol, boundary, bmarks,
                   part1, part2, sig_body, outdir, message_txt, signature_asc, err>>

Next ==
    \/ ReadFile
    \/ FindHeaderBlock
    \/ GetTopLevelBoundary
    \/ SplitMultipartSignedParts
    \/ StripHeaders
    \/ MakeDirs
    \/ TrimTrailingNewlines
    \/ WriteMessage
    \/ WriteSignature
    \/ Report

\* the outputs of one run of main on the bytes r when every file operation
\* succeeds: lines 169-201 composed
main_result(r) ==
    LET hb == find_header_block(r)
        bt == get_top_level_boundary(hb.headers)
        sp == split_multipart_signed_parts(hb.rest, bt.token)
    IN  IF ~hb.ok THEN [err |-> "MalformedMessage", message |-> NoBytes, signature |-> NoBytes]
        ELSE IF bt.err # "none" THEN [err |-> bt.err, message |-> NoBytes, signature |-> NoBytes]
        ELSE IF sp.err # "none" THEN [err |-> sp.err, message |-> NoBytes, signature |-> NoBytes]
        ELSE [err |-> "none",
              message |-> trim_trailing_newline(sp.part1),
              signature |-> trim_trailing_newline(strip_headers(sp.part2).body)]

---------------------------------------------------------------------------
(* The files the runs are started on *)

\* the byte strings over alphabet S of at most n bytes
BytesUpTo(S, n) == UNION {[1..k -> S] : k \in 0..n}

RECURSIVE Concat(_)
Concat(ss) == IF ss = <<>> THEN <<>> ELSE Head(ss) \o Concat(Tail(ss))

ContentTypeSigned ==
    <<"C", "o", "n", "t", "e", "n", "t", "-", "T", "y", "p", "e", ":", " ", "m", "u",
      "l", "t", "i", "p", "a", "r", "t", "/", "s", "i", "g", "n", "e", "d", ";">>
BoundaryParam == <<" ", "b", "o", "u", "n", "d", "a", "r", "y", "=">>

\* Content-Type: multipart/signed; boundary=<value>
ContentTypeLine(value) == ContentTypeSigned \o BoundaryParam \o value

Delimiter(T) == <<DASH, DASH>> \o T
ClosingDelimiter(T) == <<DASH, DASH>> \o T \o <<DASH, DASH>>

\* the body --T\r\n P1 --T\r\n P2 --T--\r\n
TwoPartBody(T, P1, P2) ==
    Delimiter(T) \o CRLF \o P1 \o Delimiter(T) \o CRLF \o P2 \o ClosingDelimiter(T) \o CRLF

MaxChunks == 3
Tokens == {<<"T">>, <<"T", "-">>}

\* what a part is put together from: text, line terminators, the token alone
\* and after two dashes, two dashes alone
PartChunks(T) == {<<"a">>, <<LF>>, CRLF, T, Delimiter(T), <<DASH, DASH>>}
PartContents(T) == {Concat(cs) : cs \in BytesUpTo(PartChunks(T), MaxChunks)}
PlainParts == {<<>>, <<"a", LF>>}

\* the pairs (P1, P2) tried with token T: one part of any content, the other plain
PartPairs(T) == (PartContents(T) \X PlainParts) \cup (PlainParts \X PartContents(T))

PartsInputs ==
    UNION {{[kind |-> "parts", T |-> T, P1 |-> p[1], P2 |-> p[2]] : p \in PartPairs(T)}
              : T \in Tokens}
    \cup {[kind |-> "unreadable"], [kind |-> "noarg"]}

MaxLines == 5
LineToken == <<"T">>

\* the lines a message body is put together from
BodyLines == {Delimiter(LineToken), ClosingDelimiter(LineToken), <<>>, <<"a">>}

\* two parts, the second with a header of its own; delimiters with trailing blanks
TwoPartLines ==
    <<Delimiter(LineToken) \o <<SP>>, <<"a">>, <<>>, <<"a">>, Delimiter(LineToken) \o <<TAB>>,
      <<"a">>, <<>>, <<"a">>, <<"a">>, <<>>, ClosingDelimiter(LineToken) \o <<SP, TAB>>>>

\* header blocks other than the single Content-Type line
OtherHeaders ==
    {<<ContentTypeSigned, BoundaryParam \o LineToken>>,
     <<<<"S", "u", "b", "j", "e", "c", "t", ":", " ", "x">>,
       <<"C", "O", "N", "T", "E", "N", "T", "-", "t", "y", "p", "e", ":">> \o <<TAB>>
          \o <<"M", "u", "l", "t", "i", "p", "a", "r", "t", "/", "S", "i", "g", "n", "e", "d", ";">>,
       <<TAB>> \o <<"B", "o", "u", "n", "d", "a", "r", "y", "=">> \o <<DQUOTE>> \o LineToken
          \o <<DQUOTE, ";", " ", "x", "=", "y">>>>,
     <<<<"S", "u", "b", "j", "e", "c", "t", ":", " ", "x">>>>,
     <<<<"C", "o", "n", "t", "e", "n", "t", "-", "T", "y", "p", "e", ":">>>>,
     <<<<"C", "o", "n", "t", "e", "n", "t", "-", "T", "y", "p", "e", ":", " ", "t", "e", "x",
         "t", "/", "p", "l", "a", "i", "n", ";">> \o BoundaryParam \o LineToken>>,
     <<ContentTypeSigned>>}

\* logical messages: a sequence of lines, free of \r and \n
LineMessages ==
    {<<ContentTypeLine(LineToken), <<>>>> \o body : body \in BytesUpTo(BodyLines, MaxLines)}
    \cup {h \o <<<<>>>> \o TwoPartLines : h \in OtherHeaders}
    \cup {<<ContentTypeLine(LineToken)>> \o SubSeq(TwoPartLines, 1, 2)}

LinesInputs ==
    {[kind |-> "lines", lines |-> m, eol |-> e] : m \in LineMessages, e \in {CRLF, <<LF>>}}
    \cup {[kind |-> "unreadable"], [kind |-> "noarg"]}

\* the message with every line ended by e
Encode(lines, e) == Concat([i \in 1..Len(lines) |-> lines[i] \o e])

MaxRawLen == 6

\* files of line terminators and text only
RawInputs == {[kind |-> "raw", data |-> r] : r \in BytesUpTo({CR, LF, "a"}, MaxRawLen)}

MaxValueLen == 3

\* boundary values: letters, =, and spaces that are not last
BoundaryValues ==
    {v \in BytesUpTo({"a", "B", "=", SP}, MaxValueLen) : v # <<>> /\ v[Len(v)] # SP}

\* every value in double quotes; bare only the values without a space
BoundaryInputs ==
    {[kind |-> "boundary", V |-> v, quoted |-> TRUE] : v \in BoundaryValues}
    \cup {[kind |-> "boundary", V |-> v, quoted |-> FALSE] :
             v \in {w \in BoundaryValues : \A i \in 1..Len(w) : w[i] # SP}}

\* the top-level header with boundary value v, in double quotes or bare
BoundaryHeader(v, quoted) ==
    ContentTypeLine(IF quoted THEN <<DQUOTE>> \o v \o <<DQUOTE>> ELSE v)

FileOf(in) ==
    CASE in.kind = "noarg" -> [kind |-> "noarg", data |-> NoBytes]
      [] in.kind = "unreadable" -> [kind |-> "unreadable", data |-> NoBytes]
      [] in.kind = "parts" ->
            [kind |-> "bytes",
             data |-> ContentTypeLine(in.T) \o CRLFCRLF \o TwoPartBody(in.T, in.P1, in.P2)]
      [] in.kind = "lines" -> [kind |-> "bytes", data |-> Encode(in.lines, in.eol)]
      [] in.kind = "raw" -> [kind |-> "bytes", data |-> in.data]
      [] in.kind = "boundary" ->
            [kind |-> "bytes",
             data |-> BoundaryHeader(in.V, in.quoted) \o CRLFCRLF
                         \o TwoPartBody(in.V, <<"a", CR, LF>>, <<"a", CR, LF>>)]

InitOn(inputs) ==
    /\ input \in inputs
    /\ file = FileOf(input)
    /\ pc = "read"
    /\ raw = NoBytes
    /\ top_headers = NoBytes
    /\ top_body = NoBytes
    /\ eol = NoBytes
    /\ boundary = NoBytes
    /\ bmarks = <<>>
    /\ part1 = NoBytes
    /\ part2 = NoBytes
    /\ sig_body = NoBytes
    /\ outdir = FALSE
    /\ message_txt = NoFile
    /\ signature_asc = NoFile
    /\ err = "none"
    /\ exit_code = -1

Init == InitOn(PartsInputs)

Spec == Init /\ [][Next]_vars

InitLines == InitOn(LinesInputs)

SpecLines == InitLines /\ [][Next]_vars

InitSplitter == InitOn(RawInputs)

NextSplitter == ReadFile \/ FindHeaderBlock

SpecSplitter == InitSplitter /\ [][NextSplitter]_vars

InitBoundary == InitOn(BoundaryInputs)

NextBoundary == ReadFile \/ FindHeaderBlock \/ GetTopLevelBoundary

SpecBoundary == InitBoundary /\ [][NextBoundary]_vars

---------------------------------------------------------------------------
(* Vocabulary of the properties *)

SplitErrors == {"InsufficientBoundaries", "NoClosingBoundary", "NotEnoughParts"}

\* the state split_multipart_signed_parts leaves: it returned, or it died
AfterSplit == pc = "strip_headers" \/ (pc = "exit" /\ err \in SplitErrors)

\* line is --T followed by close, then spaces and tabs, then \r\n or \n
IsLineOfForm(line, T, close) ==
    \E cr \in {<<>>, <<CR>>} :
        LET fixed == Len(Delimiter(T)) + Len(close)
        IN  /\ StartsWith(line, Delimiter(T) \o close)
            /\ EndsWith(line, cr \o <<LF>>)
            /\ Len(line) >= fixed + Len(cr) + 1
            /\ \A k \in (fixed + 1)..(Len(line) - Len(cr) - 1) : line[k] \in {SP, TAB}

\* line is one delimiter line of token T with its terminator: --T or --T--
IsDelimiterLine(line, T) ==
    IsLineOfForm(line, T, <<>>) \/ IsLineOfForm(line, T, <<DASH, DASH>>)

\* the offsets of body at which a line of the form starts
LineStartsOfForm(body, T, close) ==
    {s \in 0..(Len(body) - 1) :
        /\ s = 0 \/ body[s] = LF
        /\ \E e \in (s + 1)..Len(body) : IsLineOfForm(Slice(body, s, e), T, close)}

\* some line of p is a delimiter line of token T
HasDelimiterLine(p, T) ==
    \E s \in 0..Len(p), e \in 1..Len(p) :
        /\ s < e
        /\ s = 0 \/ p[s] = LF
        /\ IsDelimiterLine(Slice(p, s, e), T)

\* t is b less one trailing line terminator, b itself when b has none
IsTrimmedOnce(t, b) ==
    \/ EndsWith(b, CRLF) /\ t \o CRLF = b
    \/ ~EndsWith(b, CRLF) /\ EndsWith(b, <<LF>>) /\ t \o <<LF>> = b
    \/ ~EndsWith(b, <<LF>>) /\ t = b

\* t is b less one leading line terminator, b itself when b has none
IsLeadTrimmedOnce(t, b) ==
    \/ StartsWith(b, CRLF) /\ CRLF \o t = b
    \/ StartsWith(b, <<LF>>) /\ <<LF>> \o t = b
    \/ ~StartsWith(b, CRLF) /\ ~StartsWith(b, <<LF>>) /\ t = b

\* sep occurs in p at offset i
OccursAt(p, sep, i) == i + Len(sep) <= Len(p) /\ Slice(p, i, i + Len(sep)) = sep

\* i is the first offset at which sep occurs in p
FirstAt(p, sep, i) == OccursAt(p, sep, i) /\ \A j \in 0..(i - 1) : ~OccursAt(p, sep, j)

Offsets(p) == 0..Len(p)

\* body is what follows the first \r\n\r\n of p, else its first \n\n, else all of p
IsBodyAfterBlankLine(body, p) ==
    IF \E i \in Offsets(p) : OccursAt(p, CRLFCRLF, i)
    THEN \E i \in Offsets(p) : FirstAt(p, CRLFCRLF, i) /\ body = SliceFrom(p, i + 4)
    ELSE IF \E i \in Offsets(p) : OccursAt(p, LFLF, i)
    THEN \E i \in Offsets(p) : FirstAt(p, LFLF, i) /\ body = SliceFrom(p, i + 2)
    ELSE body = p

---------------------------------------------------------------------------
(* C1 *)

\* a part the two-part body can carry: empty or ending in \n (the next delimiter
\* then starts a line), and holding no delimiter line of its own
CarriablePart(p, T) == (p = <<>> \/ p[Len(p)] = LF) /\ ~HasDelimiterLine(p, T)

---------------------------------------------------------------------------
(* C2 *)

\* C2 as stated: message.txt holds the bytes between the end of mark #0 and the
\* start of mark #1 with one trailing line terminator trimmed and no other byte
\* removed, added or changed.
C2_MessageIsFirstPartTrimmedOnce ==
    message_txt.written =>
        IsTrimmedOnce(message_txt.data, Part1Slice(top_body, bmarks))

---------------------------------------------------------------------------
(* C3 *)

\* b ends in two line terminators
EndsInTwoTerminators(b) == EndsWith(b, <<LF, LF>>) \/ EndsWith(b, <<LF, CR, LF>>)

\* C3 as stated: a second application of trim_trailing_newline is a no-op, here on
\* the two byte strings main has just trimmed.
C3_TrimIdempotent ==
    pc = "write_message" =>
        /\ trim_trailing_newline(part1) = part1
        /\ trim_trailing_newline(sig_body) = sig_body

\* C3 amended: a second application of trim_trailing_newline is a no-op for every
\* b that does not end in two line terminators (\n\n or \n\r\n); for a b that does,
\* the second application removes one terminator more.
C3_TrimIdempotentUnlessTwoTerminators ==
    [][pc = "trim" =>
        \A bt \in {<<part1, part1'>>, <<sig_body, sig_body'>>} :
            LET b == bt[1]
                t == bt[2]
            IN  /\ IsTrimmedOnce(t, b)
                /\ ~EndsInTwoTerminators(b) => trim_trailing_newline(t) = t
                /\ EndsInTwoTerminators(b) =>
                      /\ trim_trailing_newline(t) # t
                      /\ IsTrimmedOnce(trim_trailing_newline(t), t)]_vars

\* a first part that ended in a single \r\n has been trimmed and trimming it again
\* changes nothing
C3_Witness ==
    /\ pc = "write_message"
    /\ part1 # <<>>
    /\ TrimLeadingNewline(Part1Slice(top_body, bmarks)) = part1 \o CRLF
    /\ trim_trailing_newline(part1) = part1

---------------------------------------------------------------------------
(* C6 *)

\* C6 as stated: a run that ends in a failure has written neither message.txt nor
\* signature.asc.
C6_NoOutputOnFailure ==
    (pc = "exit" /\ err # "none") => ~message_txt.written /\ ~signature_asc.written

---------------------------------------------------------------------------
(* C9 *)

\* C9 as stated: when split_multipart_signed_parts succeeds, neither returned part
\* holds a delimiter line of the boundary.
C9_PartsHoldNoDelimiterLine ==
    pc = "strip_headers" =>
        /\ ~HasDelimiterLine(part1, boundary)
        /\ ~HasDelimiterLine(part2, boundary)

---------------------------------------------------------------------------
(* C10 *)

---------------------------------------------------------------------------
(* C4 *)

\* b with every \r\n replaced by \n
RECURSIVE ToLF(_)
ToLF(b) ==
    IF b = <<>> THEN <<>>
    ELSE IF StartsWith(b, CRLF) THEN <<LF>> \o ToLF(SliceFrom(b, 2))
    ELSE <<b[1]>> \o ToLF(SliceFrom(b, 1))

\* C4: a logical message accepted in one encoding is accepted in the other, and
\* the outputs of the \n encoding are those of the \r\n encoding with each \r\n
\* replaced by \n.  The run of the state is the one of its own encoding.
C4_SameOutputsUnderCRLFAndLF ==
    (input.kind = "lines" /\ pc = "exit" /\ err # "IOFailure") =>
        LET crlf == main_result(Encode(input.lines, CRLF))
            lf   == main_result(Encode(input.lines, <<LF>>))
            here == IF input.eol = CRLF THEN crlf ELSE lf
        IN  /\ here.err = err
            /\ err = "none" =>
                  /\ message_txt = [written |-> TRUE, data |-> here.message]
                  /\ signature_asc = [written |-> TRUE, data |-> here.signature]
            /\ (crlf.err = "none" \/ lf.err = "none") =>
                  /\ crlf.err = "none"
                  /\ lf.err = "none"
                  /\ lf.message = ToLF(crlf.message)
                  /\ lf.signature = ToLF(crlf.signature)

\* an accepted \r\n message whose first part runs over several lines
C4_Witness ==
    /\ input.kind = "lines"
    /\ input.eol = CRLF
    /\ pc = "exit"
    /\ err = "none"
    /\ Contains(message_txt.data, CRLF)
    /\ signature_asc.data # <<>>

---------------------------------------------------------------------------
(* C7 *)

\* C7: with fewer than two delimiter lines in the body the run fails with
\* InsufficientBoundaries; else with no closing one, with NoClosingBoundary; else
\* with fewer than two delimiter lines before the first closing one, with
\* NotEnoughParts; the slicer returns parts only when none of these applies.
C7_FirstViolatedCheckIsReported ==
    AfterSplit =>
        LET opening  == LineStartsOfForm(top_body, boundary, <<>>)
            closing  == LineStartsOfForm(top_body, boundary, <<DASH, DASH>>)
            n        == Cardinality(opening \cup closing)
            before   == {s \in opening \cup closing : \A c \in closing : s < c}
        IN  /\ Len(bmarks) = n
            /\ n < 2 => err = "InsufficientBoundaries"
            /\ (n >= 2 /\ closing = {}) => err = "NoClosingBoundary"
            /\ (n >= 2 /\ closing # {} /\ Cardinality(before) < 2) => err = "NotEnoughParts"
            /\ (n >= 2 /\ closing # {} /\ Cardinality(before) >= 2) =>
                  (err = "none" /\ pc = "strip_headers")

\* two delimiter lines, neither closing
C7_Witness ==
    /\ pc = "exit"
    /\ err = "NoClosingBoundary"
    /\ Len(bmarks) = 2
    /\ \A i \in 1..2 : ~bmarks[i].is_closing

---------------------------------------------------------------------------
(* C5 *)

BoundaryErrors == {"MissingHeader", "UnexpectedMediaType", "MissingBoundary"}

\* the state get_top_level_boundary leaves: it returned, or it died
AfterBoundary ==
    pc = "split_multipart_signed_parts" \/ (pc = "exit" /\ err \in BoundaryErrors)

\* C5 as stated: for every boundary value V the header with boundary="V" and the
\* header with boundary=V yield the same token, and that token is V.
C5_QuotedAndUnquotedYieldV ==
    (input.kind = "boundary" /\ AfterBoundary) =>
        /\ err = "none"
        /\ boundary = input.V
        /\ get_top_level_boundary(BoundaryHeader(input.V, ~input.quoted))
              = [err |-> "none", token |-> boundary]

---------------------------------------------------------------------------
(* C8 *)

\* the state find_header_block leaves: it returned, or it died
AfterFindHeaderBlock ==
    pc = "get_top_level_boundary" \/ (pc = "exit" /\ err = "MalformedMessage")

\* C8 as stated: the split is at whichever of \r\n\r\n and \n\n occurs first in
\* the message; the header block is every byte before that separator and the body
\* every byte after it; with neither separator the run fails with MalformedMessage.
C8_SplitAtEarliestSeparator ==
    (input.kind = "raw" /\ AfterFindHeaderBlock) =>
        LET seps == {CRLFCRLF, LFLF}
        IN  IF \A sep \in seps : \A i \in Offsets(raw) : ~OccursAt(raw, sep, i)
            THEN pc = "exit" /\ err = "MalformedMessage"
            ELSE \E sep \in seps : \E i \in Offsets(raw) :
                    /\ OccursAt(raw, sep, i)
                    /\ \A other \in seps : \A j \in 0..(i - 1) : ~OccursAt(raw, other, j)
                    /\ pc = "get_top_level_boundary"
                    /\ top_headers = Slice(raw, 0, i)
                    /\ top_body = SliceFrom(raw, i + Len(sep))

===========================================================================
